---- MODULE Spec2Model ----
(***************************************************************************)
(* A model of the dependency-tracking engine of src/reactivity.js: the     *)
(* reactive proxy (get/set traps, one symbol map per reactive root), the   *)
(* global tracking set `effects`, the watcher registry `watchers`, watch() *)
(* with its call counter and its debounced callback, computed(), and the   *)
(* host's timer queue (the interval that resets the call counters and the  *)
(* timeouts armed by debounce).                                            *)
(*                                                                         *)
(* JavaScript runs one macrotask at a time, to completion.  A macrotask is *)
(* started by an application action (Write, WriteBurst, Delete, Watch) or  *)
(* by the host (Tick) and runs its whole synchronous call tree: the set    *)
(* trap, the callbacks it calls, their functions, the writes those make.   *)
(* The call tree is run by Step, one call or return at a time, on an       *)
(* explicit call stack (a self-triggering watcher nests RECURSION_LIMIT    *)
(* callbacks).  An action is a whole macrotask: it runs Step until the     *)
(* stack is empty, within the budget of StepBudget, and records in last.open *)
(* the frames that the budget left on the stack (none, in every macrotask  *)
(* of the program: RunsToCompletion).                                      *)
(***************************************************************************)
EXTENDS Integers, Sequences, FiniteSets, TLC

\* ------------------------------------------------------------------ bounds
MaxVal == 1        \* scalar values the application writes are 0..MaxVal
MaxOps == 2        \* application operations between two resets of the call counters
MaxGuardOps == 4   \* application operations on the variant with the running flag
MaxDoublings == 12 \* a macrotask is run for at most 2^MaxDoublings calls and returns

\* ------------------------------------------------------- program constants
RECURSION_LIMIT == 100

None == "none"
RecursiveWatch == "RecursiveWatch"     \* ReactivityErrors.RecursiveWatch
UserError == "UserError"               \* an error thrown by a watcher function
Undef == -1                            \* JavaScript's undefined
Interval == 0                          \* the timer queue's entry of setInterval

Vals == 0..MaxVal

\* ------------------------------------------------------- the reactive data
\* obj = reactive({ p, q, a: { one }, b: { one } });  c = the ref computed() returns
ScalarLocs == {"p", "q", "a.one", "b.one", "c"}

\* The nested objects a get trap hands out on the way to the location.
Containers(loc) ==
  CASE loc = "a.one" -> {"a"}
    [] loc = "b.one" -> {"b"}
    [] OTHER -> {}

\* getSymbol: reactive() makes one Map per root and the get trap hands the
\* same Map to the proxy of every nested object, so a symbol is named by the
\* root and the property name alone.
getSymbol(loc) ==
  CASE loc = "p" -> "obj.p"
    [] loc = "q" -> "obj.q"
    [] loc = "a" -> "obj.a"
    [] loc = "b" -> "obj.b"
    [] loc = "a.one" -> "obj.one"
    [] loc = "b.one" -> "obj.one"
    [] loc = "c" -> "c.value"

\* The symbols the get traps add to `effects` when the location is read.
ReadKeys(loc) == {getSymbol(l) : l \in Containers(loc) \cup {loc}}

\* --------------------------------------------------- the watcher functions
\* A watcher function is a straight-line program over an accumulator:
\*   get l      acc := l's value                (a tracked read)
\*   add l      acc := acc + l's value          (a tracked read)
\*   inc        acc := (acc + 1) % (MaxVal + 1)
\*   put l      l := acc                        (a reactive write)
\*   throwif v  throw UserError when acc = v
\*   skipif v   skip the next instruction when acc = v
\*   defer l    setTimeout(() => read l, 0)     (the read is made by the timer task)
Prog(fn) ==
  CASE fn = "readP"     -> << <<"get", "p">> >>
    [] fn = "branch"    -> << <<"get", "p">>, <<"skipif", 0>>, <<"get", "q">> >>
    [] fn = "selfWrite" -> << <<"get", "p">>, <<"inc", 0>>, <<"put", "p">> >>
    [] fn = "thrower"   -> << <<"get", "p">>, <<"throwif", 1>> >>
    [] fn = "relay"     -> << <<"get", "p">>, <<"put", "q">> >>
    [] fn = "computed"  -> << <<"get", "p">>, <<"add", "q">>, <<"put", "c">> >>
    [] fn = "readC"     -> << <<"get", "c">> >>
    [] fn = "readBOne"  -> << <<"get", "b.one">> >>
    [] fn = "deferRead" -> << <<"defer", "p">> >>

Def(fn, async) == [fn |-> fn, async |-> async]

\* The watch() calls an application chooses from; computed(fn) is the
\* definition "computed", and readC reads the ref it returned.
Defs ==
  { Def("readP", FALSE), Def("readP", TRUE), Def("branch", FALSE),
    Def("selfWrite", FALSE), Def("selfWrite", TRUE),
    Def("thrower", FALSE), Def("thrower", TRUE), Def("relay", FALSE),
    Def("computed", FALSE), Def("readC", FALSE), Def("readC", TRUE),
    Def("readBOne", FALSE), Def("deferRead", FALSE), Def("deferRead", TRUE) }

\* The applications: one of these calls, or two in order, the first of them a
\* sync-mode watcher of obj.p (the second may be triggered along with it, by
\* it, or trigger it); readC needs the ref that computed() returned, and
\* the function that defers its read of obj.p comes alone or after readP.
WatcherIds == {1, 2}
Apps ==
  {<<d>> : d \in {x \in Defs : x.fn # "readC"}}
  \cup {<<pr[1], pr[2]>> : pr \in {x \in Defs \X Defs :
                                     /\ ~x[1].async
                                     /\ x[1].fn \notin {"readC", "readBOne", "deferRead"}
                                     /\ x[2].fn # "readBOne"
                                     /\ x[2].fn = "readC" => x[1].fn = "computed"
                                     /\ x[2].fn = "deferRead" => x[1].fn = "readP"}}

NoRuns == [i \in WatcherIds |-> 0]

VARIABLES
  vals,      \* the target objects: scalar location -> value
  watchers,  \* the watcher objects, in creation order; `registered` once pushed
  effects,   \* the global tracking set
  timers,    \* the host's timer queue: Interval, the watcher a timeout will call,
             \* or Deferred(w), the timeout that the function of watcher w set
  ops,       \* application operations since the last reset of the call counters
  last       \* the last macrotask: what it was and what it did

vars == <<vals, watchers, effects, timers, ops, last>>

\* ---------------------------------------------------------- call frames
ExecFrame(w) == [k |-> "exec", w |-> w, pc |-> 1, acc |-> 0, reads |-> {}, list |-> <<>>, loc |-> "", n |-> 0]
NotifyFrame(list) == [k |-> "notify", w |-> 0, pc |-> 0, acc |-> 0, reads |-> {}, list |-> list, loc |-> "", n |-> 0]
WatchFrame(w) == [k |-> "watch", w |-> w, pc |-> 0, acc |-> 0, reads |-> {}, list |-> <<>>, loc |-> "", n |-> 0]
BurstFrame(loc, n) == [k |-> "burst", w |-> 0, pc |-> 0, acc |-> 0, reads |-> {}, list |-> <<>>, loc |-> loc, n |-> n]

\* --------------------------------------------------------- the macrotask
\* The machine a macrotask runs on: the program's state and the macrotask's
\* record; `guard` tells the watch() with the running flag (src/unnamed/part_000)
\* from the watch() with the call counter (src/reactivity.js).
Machine(l) ==
  [vals |-> vals, ws |-> watchers, effects |-> effects, timers |-> timers,
   stack |-> <<>>, last |-> l, guard |-> FALSE]

\* The record of a macrotask: what started it (op, its location or watcher),
\* the error it raised to its caller, how often each watcher's fn was entered
\* (ran), how often the set trap ran on each location (sets), and the
\* watchers whose callback ended by an exception (failed), the watcher
\* whose callback threw RecursiveWatch (by); under the running flag, the
\* watchers whose callback was called (again), and whose fn was entered
\* (deep), while an invocation of theirs was on the call stack.
New(op, loc, w) ==
  [op |-> op, loc |-> loc, w |-> w, err |-> None, ran |-> NoRuns,
   sets |-> [l \in ScalarLocs |-> 0], failed |-> {}, by |-> 0,
   again |-> {}, deep |-> {}, open |-> 0]

\* The watchers whose callbacks are on the call stack.
OnStack(m) == {m.stack[i].w : i \in {j \in 1..Len(m.stack) : m.stack[j].k = "exec"}}

\* A callback that stores the tracking set also when fn or a callback below it throws.
ThrowCommitting(m, e, who) ==
  [m EXCEPT !.stack = <<>>,
            !.ws = SelectSeq([i \in 1..Len(@) |->
                                IF i \in who THEN [@[i] EXCEPT !.deps = m.effects] ELSE @[i]],
                             LAMBDA x : x.registered),
            !.last.err = e,
            !.last.failed = @ \cup who]

\* An exception leaves every frame: nothing in the library catches it.  A
\* watcher object that watch() had not yet pushed is lost with its frame.
Throw(m, e, who) ==
  [m EXCEPT !.stack = <<>>,
            !.ws = SelectSeq(@, LAMBDA x : x.registered),
            !.last.err = e,
            !.last.failed = @ \cup who]

\* ------------------------------------------------------------ the proxy
\* get trap: the symbols of the location and of its containers join `effects`.
GetTrap(m, loc) == [m EXCEPT !.effects = @ \cup ReadKeys(loc)]

\* set trap: the watchers whose dependencies hold the symbol, in registry order.
Triggered(ws, key) ==
  SelectSeq([i \in 1..Len(ws) |-> i],
            LAMBDA i : ws[i].registered /\ key \in ws[i].deps)

Push(list, rest) == IF list = <<>> THEN rest ELSE <<NotifyFrame(list)>> \o rest

\* obj.<loc> = v: the get traps of the containers, then the set trap:
\* Reflect.set, and forEach over the filtered registry (the notify frame).
SetTrap(m, loc, v, rest) ==
  [m EXCEPT !.vals[loc] = v,
            !.effects = @ \cup {getSymbol(c) : c \in Containers(loc)},
            !.stack = Push(Triggered(m.ws, getSymbol(loc)), rest),
            !.ws = [i \in 1..Len(@) |-> [@[i] EXCEPT !.written = @ \/ m.ws[i].registered]],
            !.last.sets[loc] = @ + 1]

Plus(a, b) == IF a = Undef \/ b = Undef THEN Undef ELSE a + b

\* ------------------------------------------------------------ watch()
\* A guard that lets one call more through.
OverLimitLate(c) == c > RECURSION_LIMIT + 1

\* A guard that takes the first call of a callback for a recursion.
OverLimitFromFirst(c) == c >= 1

OverLimit(c) == c > RECURSION_LIMIT

\* A callback() that does not clear the tracking set before it enters fn.
CallbackKeeping(m, w, rest) ==
  LET counted == [m EXCEPT !.ws[w].callCount = @ + 1]
  IN  IF OverLimit(counted.ws[w].callCount)
      THEN [Throw(counted, RecursiveWatch, OnStack(m) \cup {w}) EXCEPT !.last.by = w]
      ELSE [counted EXCEPT !.stack = <<ExecFrame(w)>> \o rest,
                           !.ws[w].entered = @ + 1,
                           !.last.ran[w] = @ + 1]

\* A callback() that returns without a word when the count is over the limit.
CallbackSilent(m, w, rest) ==
  LET counted == [m EXCEPT !.ws[w].callCount = @ + 1]
  IN  IF OverLimit(counted.ws[w].callCount)
      THEN [counted EXCEPT !.stack = rest]
      ELSE [counted EXCEPT !.effects = {},
                           !.stack = <<ExecFrame(w)>> \o rest,
                           !.ws[w].entered = @ + 1,
                           !.last.ran[w] = @ + 1]

\* callback(): count the call, throw over the limit, else clear the tracking
\* set and enter fn.  `rest` is the stack the call returns to.
Callback(m, w, rest) ==
  LET counted == [m EXCEPT !.ws[w].callCount = @ + 1]
  IN  IF OverLimit(counted.ws[w].callCount)
      THEN [Throw(counted, RecursiveWatch, OnStack(m) \cup {w}) EXCEPT !.last.by = w]
      ELSE [counted EXCEPT !.effects = {},
                           !.stack = <<ExecFrame(w)>> \o rest,
                           !.ws[w].entered = @ + 1,
                           !.last.ran[w] = @ + 1]

\* A watch() whose first call is watcher.callback(): debounced when async.
FirstCallDebounced(m, w, rest) ==
  IF m.ws[w].async
  THEN [m EXCEPT !.timers = Append(SelectSeq(@, LAMBDA t : t # w), w), !.stack = rest]
  ELSE Callback(m, w, rest)

\* watch() calls callback() itself, not watcher.callback, for its first run.
FirstCall(m, w, rest) == Callback(m, w, rest)

\* debounce(callback): clearTimeout, then setTimeout(callback, 0).
Debounce(tq, w) == Append(SelectSeq(tq, LAMBDA t : t # w), w)

\* fn's instructions from pc up to its next reactive write, its end or its throw.
RECURSIVE Adv(_, _, _, _, _, _)
Adv(v, prog, pc, acc, eff, reads) ==
  IF pc > Len(prog)
  THEN [stop |-> "end", pc |-> pc, acc |-> acc, eff |-> eff, reads |-> reads]
  ELSE LET op == prog[pc][1]
           arg == prog[pc][2]
       IN CASE op = "get" ->
                 Adv(v, prog, pc + 1, v[arg], eff \cup ReadKeys(arg),
                     reads \cup Containers(arg) \cup {arg})
            [] op = "add" ->
                 Adv(v, prog, pc + 1, Plus(acc, v[arg]), eff \cup ReadKeys(arg),
                     reads \cup Containers(arg) \cup {arg})
            [] op = "inc" ->
                 Adv(v, prog, pc + 1,
                     IF acc = Undef THEN Undef ELSE (acc + 1) % (MaxVal + 1), eff, reads)
            [] op = "skipif" ->
                 Adv(v, prog, IF acc = arg THEN pc + 2 ELSE pc + 1, acc, eff, reads)
            [] op = "throwif" ->
                 IF acc = arg
                 THEN [stop |-> "throw", pc |-> pc, acc |-> acc, eff |-> eff, reads |-> reads]
                 ELSE Adv(v, prog, pc + 1, acc, eff, reads)
            [] op = "put" ->
                 [stop |-> "put", pc |-> pc, acc |-> acc, eff |-> eff, reads |-> reads]
            [] op = "defer" ->
                 [stop |-> "defer", pc |-> pc, acc |-> acc, eff |-> eff, reads |-> reads]

\* The timeout that the function of watcher w set.
Deferred(w) == 0 - w

\* What callback() stores when fn has returned.
NewDeps(eff) == eff

\* One run of fn, from where it stands to its next write, its end or its throw.
RunFn(m) ==
  LET f == Head(m.stack)
      prog == Prog(m.ws[f.w].fn)
      r == Adv(m.vals, prog, f.pc, f.acc, m.effects, f.reads)
      read == [m EXCEPT !.effects = r.eff]
  IN CASE r.stop = "throw" -> Throw(read, UserError, OnStack(m))
       [] r.stop = "end" ->
            [read EXCEPT !.ws[f.w].deps = NewDeps(r.eff),
                         !.ws[f.w].kept = NewDeps(r.eff),
                         !.ws[f.w].reads = r.reads,
                         !.stack = Tail(@)]
       [] r.stop = "put" ->
            SetTrap(read, prog[r.pc][2], r.acc,
                    <<[f EXCEPT !.pc = r.pc + 1, !.acc = r.acc,
                                !.reads = r.reads \cup Containers(prog[r.pc][2])]>>
                    \o Tail(m.stack))
       [] r.stop = "defer" ->
            [read EXCEPT !.timers = Append(@, Deferred(f.w)),
                         !.stack = <<[f EXCEPT !.pc = r.pc + 1, !.acc = r.acc,
                                               !.reads = r.reads]>> \o Tail(m.stack)]

\* A forEach that calls every watcher's undebounced callback.
ForEachUndebounced(m) ==
  Callback(m, Head(Head(m.stack).list),
           Push(Tail(Head(m.stack).list), Tail(m.stack)))

\* forEach(({ callback }) => callback()): the next of the filtered watchers.
ForEach(m) ==
  LET w == Head(Head(m.stack).list)
      rest == Push(Tail(Head(m.stack).list), Tail(m.stack))
  IN IF m.ws[w].async
     THEN [m EXCEPT !.timers = Debounce(@, w), !.stack = rest]
     ELSE Callback(m, w, rest)

\* watchers.push(watcher), when watch()'s first callback() has returned.
Register(m) ==
  [m EXCEPT !.ws[Head(m.stack).w].registered = TRUE, !.stack = Tail(@)]

\* ------------------------------------- watch() with the running flag
\* A callback() guarded by the call counter in place of the running flag.
GuardCallbackCounting(m, w, rest) ==
  LET c == Callback(m, w, rest)
  IN [c EXCEPT !.last.again = IF w \in OnStack(m) THEN @ \cup {w} ELSE @,
               !.last.deep = IF w \in OnStack(m) /\ c.last.err = None THEN @ \cup {w} ELSE @]

\* callback(): throw when the flag is set, else set it, clear the tracking
\* set and enter fn.
GuardCallback(m, w, rest) ==
  LET called == [m EXCEPT !.last.again = IF w \in OnStack(m) THEN @ \cup {w} ELSE @]
  IN IF m.ws[w].isRunning
     THEN [Throw(called, RecursiveWatch, OnStack(m) \cup {w}) EXCEPT !.last.by = w]
     ELSE [called EXCEPT !.ws[w].isRunning = TRUE,
                         !.effects = {},
                         !.stack = <<ExecFrame(w)>> \o rest,
                         !.last.ran[w] = @ + 1,
                         !.last.deep = IF w \in OnStack(m) THEN @ \cup {w} ELSE @]

\* fn runs on; when it has returned, callback() stores the dependencies and
\* clears the flag.
GuardRunFn(m) ==
  LET r == RunFn(m)
  IN IF r.last.err = None /\ Len(r.stack) = Len(m.stack) - 1
     THEN [r EXCEPT !.ws[Head(m.stack).w].isRunning = FALSE]
     ELSE r

\* forEach(({ callback }) => callback()), the same set trap.
GuardForEach(m) ==
  LET w == Head(Head(m.stack).list)
      rest == Push(Tail(Head(m.stack).list), Tail(m.stack))
  IN IF m.ws[w].async
     THEN [m EXCEPT !.timers = Debounce(@, w), !.stack = rest]
     ELSE GuardCallback(m, w, rest)

\* watch() calls watcher.callback(): the debounced one when async.
GuardFirstCall(m, w, rest) ==
  IF m.ws[w].async
  THEN [m EXCEPT !.timers = Debounce(@, w), !.stack = rest]
  ELSE GuardCallback(m, w, rest)

\* The next assignment of the application's loop.
BurstNext(m) ==
  LET f == Head(m.stack)
  IN SetTrap(m, f.loc, f.n % (MaxVal + 1),
             IF f.n = 1 THEN <<>> ELSE <<BurstFrame(f.loc, f.n - 1)>>)

\* One call or return of the running macrotask.
Step(m) ==
  IF m.stack = <<>> THEN m
  ELSE CASE Head(m.stack).k = "exec" -> IF m.guard THEN GuardRunFn(m) ELSE RunFn(m)
         [] Head(m.stack).k = "notify" -> IF m.guard THEN GuardForEach(m) ELSE ForEach(m)
         [] Head(m.stack).k = "watch" -> Register(m)
         [] Head(m.stack).k = "burst" -> BurstNext(m)

\* The machine after at most 2^k steps: the first half is run to its value,
\* and the second half starts from that value.
Then(ms) == CHOOSE m \in ms : TRUE

RECURSIVE Steps(_, _)
Steps(m, k) ==
  IF m.stack = <<>> THEN m
  ELSE IF k = 0 THEN Step(m)
  ELSE Then({Steps(x, k - 1) : x \in {Steps(m, k - 1)}})

StepBudget(m) == Steps(m, MaxDoublings)

\* The macrotask runs to its end and leaves the program's next state.
Run(m) ==
  \E e \in {StepBudget(m)} :
     /\ vals' = e.vals
     /\ watchers' = e.ws
     /\ effects' = e.effects
     /\ timers' = e.timers
     /\ last' = [e.last EXCEPT !.open = Len(e.stack)]

\* --------------------------------------------------------------- actions
Init ==
  /\ vals = [l \in ScalarLocs |-> IF l = "c" THEN Undef ELSE 0]
  /\ watchers = <<>>
  /\ effects = {}
  /\ timers = <<Interval>>
  /\ ops = 0
  /\ last = New("init", "", 0)

\* The locations the application assigns to: p and q, and the nested ones when
\* it watches a nested one.
Written ==
  {"p", "q"} \cup {l \in {"a.one", "b.one"} :
                     \E i \in 1..Len(watchers) : Prog(watchers[i].fn)[1][2] \in {"a.one", "b.one"}}

\* obj.<loc> = v, by the application.
Write(loc, v) ==
  /\ ops < MaxOps
  /\ loc \in Written
  /\ ops' = ops + 1
  /\ Run(SetTrap(Machine(New("write", loc, 0)), loc, v, <<>>))

\* for (n = RECURSION_LIMIT; n > 0; n--) obj.<loc> = n % (MaxVal + 1), by the application.
WriteBurst(loc) ==
  /\ ops = 0 /\ watchers # <<>>
  /\ ops' = ops + 1
  /\ Run([Machine(New("burst", loc, 0)) EXCEPT !.stack = <<BurstFrame(loc, RECURSION_LIMIT)>>])

\* obj.<loc>, read by the application outside every watcher, as the first
\* operation of its task.
Read(loc) ==
  /\ ops = 0
  /\ ops' = ops + 1
  /\ Run(GetTrap(Machine(New("read", loc, 0)), loc))

\* delete obj.<loc>, by the application: the handler has no deleteProperty
\* trap, so the proxy deletes the target's property and nothing else runs.
Delete(loc) ==
  /\ ops < MaxOps
  /\ ops' = ops + 1
  /\ Run([Machine(New("delete", loc, 0)) EXCEPT !.vals[loc] = Undef])

\* watch(fn, { async }): make the watcher object, run callback() once and
\* push the watcher (Register).  computed(fn) is watch, with async: false,
\* of the function that assigns fn() to the ref.
Watch(d) ==
  /\ ops < MaxOps
  /\ Append([i \in 1..Len(watchers) |-> Def(watchers[i].fn, watchers[i].async)], d)
        \in Apps
  /\ ops' = ops + 1
  /\ LET w == Len(watchers) + 1
         obj == [fn |-> d.fn, async |-> d.async, deps |-> {}, callCount |-> 0,
                 kept |-> {}, reads |-> {}, late |-> {}, written |-> FALSE,
                 registered |-> FALSE, isRunning |-> FALSE, entered |-> 0]
     IN Run(FirstCall([Machine(New("watch", "", w)) EXCEPT !.ws = Append(@, obj)],
                      w, <<WatchFrame(w)>>))

\* The timeout that a watcher's function set reads the location, after the
\* function has returned (`late` records it).
DeferredRead(w) ==
  LET loc == Prog(watchers[w].fn)[1][2]
  IN GetTrap([Machine(New("deferred", loc, w)) EXCEPT
                !.timers = Tail(@), !.ws[w].late = @ \cup {loc}], loc)

\* The host runs the timer at the head of its queue: the interval, which
\* resets the call counters and is queued again, a debounced callback, or a
\* timeout that a watcher's function set.
Tick ==
  /\ timers # <<>>
  /\ IF Head(timers) = Interval
     THEN /\ ops' = 0
          /\ Run([Machine(New("reset", "", 0)) EXCEPT
                    !.ws = [i \in 1..Len(watchers) |-> [watchers[i] EXCEPT !.callCount = 0, !.entered = 0]],
                    !.timers = Append(Tail(timers), Interval)])
     ELSE /\ ops' = ops
          /\ IF Head(timers) > 0
             THEN Run(Callback([Machine(New("timeout", "", Head(timers))) EXCEPT
                                  !.timers = Tail(@)],
                               Head(timers), <<>>))
             ELSE Run(DeferredRead(0 - Head(timers)))

WriteInputs == ({"p", "q"} \X Vals) \cup ({"a.one", "b.one"} \X {0})
DeleteInputs == {"p"}
ReadInputs == {"p"}
BurstInputs == {"p", "q"}

Next ==
  \/ \E in \in WriteInputs : Write(in[1], in[2])
  \/ \E loc \in BurstInputs : WriteBurst(loc)
  \/ \E loc \in DeleteInputs : Delete(loc)
  \/ \E loc \in ReadInputs : Read(loc)
  \/ \E d \in Defs : Watch(d)
  \/ Tick

Spec == Init /\ [][Next]_vars

\* The applications whose watchers are all debounced, on a host that runs a
\* timer that is due (the interval is always due again).
DebouncedNext ==
  \/ \E in \in WriteInputs : Write(in[1], in[2])
  \/ \E loc \in BurstInputs : WriteBurst(loc)
  \/ \E loc \in DeleteInputs : Delete(loc)
  \/ \E d \in {x \in Defs : x.async} : Watch(d)
  \/ Tick

DebouncedSpec == Init /\ [][DebouncedNext]_vars /\ WF_vars(Tick)

\* ------------------------- the program with the running flag (part_000)
\* No interval runs in this program: the timer queue starts empty.
GuardInit ==
  /\ vals = [l \in ScalarLocs |-> IF l = "c" THEN Undef ELSE 0]
  /\ watchers = <<>>
  /\ effects = {}
  /\ timers = <<>>
  /\ ops = 0
  /\ last = New("init", "", 0)

GuardMachine(l) == [Machine(l) EXCEPT !.guard = TRUE]

GuardWrite(loc, v) ==
  /\ ops < MaxGuardOps
  /\ loc \in Written
  /\ ops' = ops + 1
  /\ Run(SetTrap(GuardMachine(New("write", loc, 0)), loc, v, <<>>))

GuardWatch(d) ==
  /\ ops < MaxGuardOps
  /\ Append([i \in 1..Len(watchers) |-> Def(watchers[i].fn, watchers[i].async)], d)
        \in Apps
  /\ ops' = ops + 1
  /\ LET w == Len(watchers) + 1
         obj == [fn |-> d.fn, async |-> d.async, deps |-> {}, callCount |-> 0,
                 kept |-> {}, reads |-> {}, late |-> {}, written |-> FALSE,
                 registered |-> FALSE, isRunning |-> FALSE, entered |-> 0]
     IN Run(GuardFirstCall([GuardMachine(New("watch", "", w)) EXCEPT !.ws = Append(@, obj)],
                           w, <<WatchFrame(w)>>))

\* The host runs the debounced callback at the head of its queue.
GuardTick ==
  /\ timers # <<>>
  /\ ops' = ops
  /\ Run(GuardCallback([GuardMachine(New("timeout", "", Head(timers))) EXCEPT
                          !.timers = Tail(@)],
                       Head(timers), <<>>))

GuardDefs == {d \in Defs : d.fn # "deferRead"}

GuardNext ==
  \/ \E in \in WriteInputs : GuardWrite(in[1], in[2])
  \/ \E d \in GuardDefs : GuardWatch(d)
  \/ GuardTick

GuardSpec == GuardInit /\ [][GuardNext]_vars

\* ------------------------------------------------------------ properties
Reg == 1..Len(watchers)
Is(w, fn, async) == watchers[w].fn = fn /\ watchers[w].async = async
Pending(w) == \E i \in 1..Len(timers) : timers[i] = w
KeysOf(locs) == {getSymbol(l) : l \in locs}
\* No location that the watcher's last run read was written in the last macrotask.
Untouched(w) == \A l \in watchers[w].reads \cap ScalarLocs : last.sets[l] = 0

\* Every macrotask of the program ends within the step budget.
RunsToCompletion == last.open = 0

\* C1: a sync-mode watcher whose function reads p runs exactly once when
\* watch() is called, and exactly once more, before the write returns, for
\* each later write to p (here: a write to p by the application, during which
\* no watcher function wrote p again or threw an error of its own).
C1_SyncReaderRunsOncePerWrite ==
  \A w \in Reg : Is(w, "readP", FALSE) =>
    /\ (last.op = "watch" /\ last.w = w => last.ran[w] = 1)
    /\ (last.op = "write" /\ last.loc = "p" /\ last.sets["p"] = 1 /\ last.err # UserError
          => last.ran[w] = 1)

\* C2: a debounced watcher is not re-run by the writes to its dependencies
\* themselves; a write to one of its dependencies (here: a write by the
\* application in which no watcher function wrote or threw) leaves exactly one
\* re-run of it due, and the timer task that performs the re-run enters its
\* function exactly once.
C2_DebouncedRerunsOnceAfterTick ==
  \A w \in Reg : watchers[w].async =>
    /\ (last.op \in {"write", "burst"} => last.ran[w] = 0)
    /\ (last.op = "write" /\ getSymbol(last.loc) \in watchers[w].deps
          /\ last.err # UserError /\ last.sets = [New("", "", 0).sets EXCEPT ![last.loc] = 1]
          => Cardinality({i \in 1..Len(timers) : timers[i] = w}) = 1)
    /\ (last.op = "timeout" /\ last.w = w => last.ran[w] = 1)

\* C3: watch() runs fn exactly once, synchronously, whatever the mode, and only
\* then registers the watcher (a first run that fails leaves no watcher
\* behind); as long as no reactive property is written after the registration
\* the watcher is never run again and no re-run of it is due, also after timer
\* ticks.
C3_FirstRunThenRegistered ==
  /\ last.op = "watch" =>
       /\ last.ran[last.w] = 1
       /\ last.err = None => last.w \in Reg /\ watchers[last.w].registered
       /\ last.err # None => last.w \notin Reg
  /\ \A w \in Reg : ~watchers[w].written =>
       /\ ~Pending(w)
       /\ last.ran[w] = (IF last.op = "watch" /\ last.w = w THEN 1 ELSE 0)

\* C3 witness: a debounced watcher is registered, nothing was written since,
\* and the timer has ticked.
C3_Witness ==
  \E w \in Reg : watchers[w].async /\ ~watchers[w].written /\ last.op = "reset"

\* C4: the ref that computed(fn) returned holds fn's value (here p + q) after
\* every write to p or q, when that write returns (here: returns normally).
C4_ComputedIsFresh ==
  (\E w \in Reg : watchers[w].fn = "computed")
  /\ last.op = "write" /\ last.loc \in {"p", "q"} /\ last.err = None
  => vals["c"] = Plus(vals["p"], vals["q"])

C6_SiblingWriteDoesNotRerun ==
  \A w \in Reg : /\ last.op = "write" /\ last.loc = "q"
                  /\ watchers[w].reads = {"p"}
                  /\ Untouched(w)
    => last.ran[w] = 0

\* C7: a write to a.one does not re-run a watcher whose last run read b.one and
\* not a.one, the two properties having different keys.
C7_SameNameDifferentObject ==
  \A w \in Reg : /\ last.op = "write" /\ last.loc = "a.one"
                  /\ "b.one" \in watchers[w].reads /\ "a.one" \notin watchers[w].reads
    => last.ran[w] = 0 /\ ~Pending(w)

\* C8: deleting a property that a watcher's last run read triggers the watcher
\* as a write does: a sync-mode watcher is re-run before the delete returns, a
\* debounced one has a re-run due.
C8_DeleteTriggers ==
  \A w \in Reg : last.op = "delete" /\ getSymbol(last.loc) \in watchers[w].deps
    => IF watchers[w].async THEN Pending(w) ELSE last.ran[w] >= 1

\* C9: after any run of a watcher that has returned, its dependency set is
\* exactly the set of keys its function read in that run, also when the
\* function's writes made other sync-mode watchers run nested inside it.
C9_DepsAreTheKeysOfTheLastRun ==
  \A w \in Reg : watchers[w].deps = KeysOf(watchers[w].reads)

C11_FailedRunKeepsDependencies ==
  \A w \in Reg : watchers[w].deps = watchers[w].kept

\* C11 witness: a run of a registered watcher ended with an error after its
\* function was entered, and the tracking set it leaves differs from the
\* watcher's dependencies.
C11_Witness ==
  \E w \in Reg : /\ w \in last.failed /\ last.ran[w] > 0 /\ last.err # None
                  /\ effects # watchers[w].deps /\ watchers[w].deps = watchers[w].kept

\* C12: on a host that runs every due timer, once the application has made
\* its last operation (from then on only timers run), a debounced watcher
\* whose function reads p and unconditionally writes p, and which a write
\* has scheduled, leads to a RecursiveWatch failure: the chain of re-runs
\* that it schedules for itself across timer tasks does not go on forever.
C12_DebouncedSelfWriterEventuallyFails ==
  (<>[](last.op \in {"reset", "timeout"}))
     => ((\E w \in Reg : Is(w, "selfWrite", TRUE) /\ last.op = "write" /\ Pending(w))
            ~> (last.err = RecursiveWatch))

\* C13: a watcher whose function reads nothing while it runs, and sets a
\* timeout that reads p after it has returned, has no dependencies, however
\* the application and that timeout have read p outside every run; no write
\* re-runs it or schedules a re-run of it: its function is entered by
\* watch() alone.
C13_ReadsOutsideARunAreNotTracked ==
  \A w \in Reg : watchers[w].fn = "deferRead" =>
     /\ watchers[w].deps = {}
     /\ ~Pending(w)
     /\ last.ran[w] > 0 => last.op = "watch" /\ last.w = w

\* The timeout has read p, and a later write to p has left the watcher alone.
C13_Witness ==
  \E w \in Reg : /\ watchers[w].fn = "deferRead" /\ "p" \in watchers[w].late
                 /\ last.op = "write" /\ last.loc = "p" /\ last.ran[w] = 0
                 /\ "obj.p" \in effects /\ watchers[w].deps = {}

C15_WatcherOfComputedFollowsWrites ==
  \A w \in Reg :
     (/\ watchers[w].fn = "readC" /\ "c" \in watchers[w].reads
      /\ last.op = "write" /\ last.loc \in {"p", "q"} /\ last.err = None)
     => /\ vals["c"] = Plus(vals["p"], vals["q"])
        /\ IF watchers[w].async THEN Pending(w) ELSE last.ran[w] >= 1

\* C16: under the running flag, a sync-mode watcher whose callback is called
\* while an invocation of it is on the call stack throws RecursiveWatch at
\* that call, the first such call: its function is not entered while an
\* invocation of it is executing, and is entered once in that macrotask.
C16_ReentrantCallRaisesAtOnce ==
  \A w \in WatcherIds : w \in last.again =>
     /\ last.err = RecursiveWatch /\ last.by = w
     /\ w \notin last.deep
     /\ last.ran[w] <= 1

\* A write triggered a sync-mode watcher whose function writes what it reads.
C16_Witness ==
  \E w \in Reg : /\ w \in last.again /\ ~watchers[w].async /\ last.op = "write"
                 /\ last.ran[w] = 1 /\ last.err = RecursiveWatch

\* C17: when no watcher's function makes a write (every write is the
\* application's), the callback of a sync-mode watcher never throws
\* RecursiveWatch, however many writes trigger it between two resets of the
\* call counters.
C17_ReadOnlyWatcherNeverRecursive ==
  (\A v \in Reg : \A i \in 1..Len(Prog(watchers[v].fn)) : Prog(watchers[v].fn)[i][1] # "put")
  => \A w \in Reg : ~watchers[w].async => ~(last.err = RecursiveWatch /\ last.by = w)

\* C18: under the running flag, between macrotasks (no invocation of any
\* watcher is executing) every watcher's flag is false, also after a run
\* that ended with an error of its function or with RecursiveWatch.
C18_FlagIsFalseWhenIdle ==
  \A w \in Reg : ~watchers[w].isRunning

\* C19: a write by the application, in which no watcher function wrote that
\* location again, invokes every sync-mode watcher whose dependencies hold
\* the written key: its function was entered, or its callback threw
\* RecursiveWatch, also when a watcher invoked before it failed.
C19_EveryTriggeredWatcherIsInvoked ==
  \A w \in Reg :
     (/\ last.op = "write" /\ last.sets[last.loc] = 1
      /\ ~watchers[w].async /\ getSymbol(last.loc) \in watchers[w].deps)
     => (last.ran[w] >= 1 \/ last.by = w)

\* C20: since the last reset of the call counters (or since its watch()),
\* each watcher's function was entered at most RECURSION_LIMIT times, the
\* run of watch() included; and a write or timer task that ended with
\* RecursiveWatch without entering any function (its one callback call was
\* over the limit) leaves the tracking set as it found it.
C20_AtMostLimitRunsBetweenResets ==
  [][/\ \A w \in 1..Len(watchers') : watchers'[w].entered <= RECURSION_LIMIT
     /\ (/\ last'.err = RecursiveWatch /\ last'.op \in {"write", "timeout"}
         /\ last'.loc \in {"", "p", "q"} /\ \A w \in WatcherIds : last'.ran[w] = 0)
        => effects' = effects]_vars

\* A watcher was entered RECURSION_LIMIT times, in watch() and by writes, and
\* a further call of its callback threw RecursiveWatch before the next reset.
C20_Witness ==
  \E w \in Reg : /\ watchers[w].entered = RECURSION_LIMIT
                 /\ watchers[w].callCount > RECURSION_LIMIT
                 /\ last.err = RecursiveWatch /\ last.by = w /\ effects # {}

====
